---- MODULE Spec2Model ----
(***************************************************************************)
(* Incremental fetch / normalize / cache synchronisation of OHLCV bars,    *)
(* modelled from czsc/connectors/binance_cctx.py:                          *)
(*   __api_fetch_ohlcv  (pagination loop and normalisation),               *)
(*   get_raw_bars       (period check, window filter, incomplete-bar drop),*)
(*   get_latest_klines  (cache read, resume point, merge, persist, slice). *)
(*                                                                         *)
(* Time is in milliseconds since the model's origin, 2017-01-01 00:00, the *)
(* default start of get_latest_klines.  A naive pandas Timestamp t and the *)
(* integer int(t.timestamp() * 1000) are the same number here.             *)
(* A bar's payload (open, high, low, close, vol, amount) is one value v.   *)
(***************************************************************************)
EXTENDS Integers, Sequences, FiniteSets, TLC

(* ------------------------------ time units ----------------------------- *)
Minute == 60 * 1000
Hour == 60 * Minute
Day == 24 * Hour

(* ------------------------------- bounds -------------------------------- *)
MaxTs == 2        \* upstream open timestamps are 0, 1, .. MaxTs days
MaxRows == 2      \* rows the upstream delivers to one call, over all its pages
MaxTicks == 1     \* times the wall clock advances

(* ------------------------------- inputs -------------------------------- *)
NoSdt == -1                       \* sdt=None
DefaultSdt == 0                   \* pd.to_datetime("20170101")
StartChoices == {NoSdt, 12 * Hour, 18 * Hour}
Periods == {"4h", "3m"}
Values == {1, 2}
TsGrid == {k * Day : k \in 0..MaxTs}
RawRows == [open_ts : TsGrid, v : Values]
ColumnCounts == {6}                \* ccxt's fetch_ohlcv rows: [ts, o, h, l, c, v]
Now0 == 0 * Day                    \* the clock at the start: every bar is still forming
TickStep == 3 * Day                \* one advance of the clock
Procs == {1, 2}                    \* the callers of get_latest_klines

RECURSIVE SeqsUpTo(_, _)
SeqsUpTo(S, n) ==
    IF n = 0 THEN {<<>>}
    ELSE LET shorter == SeqsUpTo(S, n - 1)
         IN shorter \cup {Append(q, x) : q \in {t \in shorter : Len(t) = n - 1}, x \in S}

(* The non-empty pages the upstream may return. *)
Pages == SeqsUpTo(RawRows, MaxRows) \ {<<>>}

(* --------------------------- pandas helpers ---------------------------- *)
(* pd.DataFrame(): no columns, no rows. *)
EmptyDF == [cols |-> FALSE, rows |-> <<>>]

Frame(rows) == [cols |-> TRUE, rows |-> rows]

RECURSIVE Pick(_, _, _)
Pick(s, keep, i) ==
    IF i > Len(s) THEN <<>>
    ELSE (IF i \in keep THEN <<s[i]>> ELSE <<>>) \o Pick(s, keep, i + 1)

Dts(s) == {s[i].dt : i \in DOMAIN s}

MaxDt(s) == CHOOSE m \in Dts(s) : \A d \in Dts(s) : d <= m

(* drop_duplicates("dt") without keep="last": the first occurrence stays. *)
DropDuplicatesFirst(s) ==
    Pick(s, {i \in DOMAIN s : \A j \in DOMAIN s : j < i => s[j].dt # s[i].dt}, 1)

(* The duplicates are left in. *)
DropDuplicatesNone(s) == s

(* drop_duplicates("dt", keep="last") *)
DropDuplicatesLast(s) ==
    Pick(s, {i \in DOMAIN s : \A j \in DOMAIN s : j > i => s[j].dt # s[i].dt}, 1)

(* sort_values("dt"): ascending, rows with equal dt in their given order. *)
RECURSIVE SortValues(_)
SortValues(s) ==
    IF s = <<>> THEN <<>>
    ELSE LET init == SortValues(SubSeq(s, 1, Len(s) - 1))
             r == s[Len(s)]
             k == Cardinality({i \in DOMAIN init : init[i].dt <= r.dt})
         IN SubSeq(init, 1, k) \o <<r>> \o SubSeq(init, k + 1, Len(init))

(* ------------------------- __api_fetch_ohlcv --------------------------- *)
(* The cursor after a non-empty page: cur = int(klines[-1][0]) + 1 *)
NextCursor(klines) == klines[Len(klines)].open_ts + 1

(* The shift that moves dt to the bar's end. *)
IntervalShift(interval) ==
    CASE interval = "4h" -> 4 * Hour
      [] interval = "2h" -> 2 * Hour
      [] interval = "1h" -> 1 * Hour
      [] interval = "30m" -> 30 * Minute
      [] interval = "15m" -> 15 * Minute
      [] interval = "5m" -> 5 * Minute
      [] interval = "1m" -> 1 * Minute
      [] OTHER -> 0

(* The length of a bar, for the close timestamp a seven-column upstream row
   carries: [open_ts, open, high, low, close, volume, close_ts, ...]. *)
IntervalMs(interval) ==
    CASE interval = "3m" -> 3 * Minute
      [] interval = "6h" -> 6 * Hour
      [] interval = "8h" -> 8 * Hour
      [] interval = "12h" -> 12 * Hour
      [] interval = "1d" -> Day
      [] OTHER -> IntervalShift(interval)

CloseTs(r, interval) == r.open_ts + IntervalMs(interval) - 1

(* dt of one raw row: close_ts when the table has seven columns, open_ts
   otherwise; then the interval shift; then UTC -> Asia/Shanghai. *)
NormDt(r, interval, ncols) ==
    (IF ncols >= 7 THEN CloseTs(r, interval) ELSE r.open_ts)
        + IntervalShift(interval) + 8 * Hour

NormRows(klines, interval, ncols) ==
    [i \in DOMAIN klines |-> [dt |-> NormDt(klines[i], interval, ncols), v |-> klines[i].v]]

(* The DataFrame __api_fetch_ohlcv returns for the accumulated pages. *)
ApiFetchOhlcv(all_klines, interval, ncols) ==
    IF all_klines = <<>> THEN EmptyDF
    ELSE Frame(SortValues(DropDuplicatesLast(NormRows(all_klines, interval, ncols))))

(* ---------------------------- get_raw_bars ----------------------------- *)
(* A vocabulary that also lets "3m" through. *)
TimeframesWithThreeMinute ==
    {"1m", "3m", "5m", "15m", "30m", "1h", "2h", "4h", "6h", "8h", "12h", "1d"}

Timeframes == {"1m", "5m", "15m", "30m", "1h", "2h", "4h", "6h", "8h", "12h", "1d"}

(* df[(df["dt"] <= edt) & (df["dt"] >= sdt)] *)
WindowFilter(rows, sdt, edt) ==
    SelectSeq(rows, LAMBDA r : r.dt <= edt /\ r.dt >= sdt)

(* if not df.empty and df["dt"].max() > now: df = df.iloc[:-1] *)
IncompleteFilter(rows, clock) ==
    IF rows # <<>> /\ MaxDt(rows) > clock THEN SubSeq(rows, 1, Len(rows) - 1) ELSE rows

(* What get_raw_bars returns once the pages are in. *)
GetRawBars(all_klines, period, sdt, edt, clock, ncols) ==
    LET df == ApiFetchOhlcv(all_klines, period, ncols)
    IN IF df.rows = <<>> THEN df
       ELSE Frame(IncompleteFilter(WindowFilter(df.rows, sdt, edt), clock))

(* -------------------------- get_latest_klines -------------------------- *)
(* klines_{symbol}_{period}_{sdt_pd:%Y%m%d}.feather, for the one symbol. *)
FileCache(period, sdt_pd) == <<period, sdt_pd \div Day>>

StartValues == {IF s = NoSdt THEN DefaultSdt ELSE s : s \in StartChoices}

Files == {FileCache(p, s) : p \in Periods, s \in StartValues}

(* if file_cache.exists(): df = pd.read_feather(file_cache) else: df = pd.DataFrame() *)
CacheRead(f) == IF f.exists THEN Frame(f.rows) ELSE EmptyDF

(* df["dt"].max() of a cache file without rows is NaT, and so is _sdt; the
   conversion of NaT to milliseconds raises ValueError. *)
IsNaT(f) == f.exists /\ f.rows = <<>>

(* _sdt = df["dt"].max() - pd.Timedelta(days=1) *)
ResumePoint(rows) == MaxDt(rows) - Day

(* pd.concat([df, df1], ignore_index=True) *)
Concat(df, df1) == [cols |-> df.cols \/ df1.cols, rows |-> df.rows \o df1.rows]

(* The duplicates are left in. *)
MergeRowsNoDedup(old, new) == SortValues(old \o new)

(* The rows are left in the order of the concatenation. *)
MergeRowsNoSort(old, new) == DropDuplicatesLast(old \o new)

(* The fetched rows alone are kept. *)
MergeRowsNewOnly(old, new) == SortValues(DropDuplicatesLast(new))

(* The cached row wins over the fetched one. *)
MergeRowsKeepFirst(old, new) == SortValues(DropDuplicatesFirst(old \o new))

(* concat, drop_duplicates("dt", keep="last"), sort_values("dt") *)
MergeRows(old, new) == SortValues(DropDuplicatesLast(old \o new))

(* The start of the fetch window, _sdt, when it is a time. *)
FetchStart(f, sdt_pd) == IF f.exists THEN ResumePoint(f.rows) ELSE sdt_pd

(* A row at the requested start is returned too. *)
SliceAfterInclusive(rows, sdt_pd) == SelectSeq(rows, LAMBDA r : r.dt >= sdt_pd)

(* df3 = df2[df2["dt"] > sdt_pd] *)
SliceAfter(rows, sdt_pd) == SelectSeq(rows, LAMBDA r : r.dt > sdt_pd)

(* A sync that persists only the slice it returns. *)
SyncResultPersistSlice(df, s_dt, sdt_pd, period, all_klines, edt, clock, ncols) ==
    LET df1 == GetRawBars(all_klines, period, s_dt, edt, clock, ncols)
        df2 == Concat(df, df1)
        rows == MergeRows(df.rows, df1.rows)
    IN IF ~df2.cols
       THEN [status |-> "KeyError", df1 |-> df1, written |-> FALSE,
             rows |-> <<>>, df3 |-> <<>>]
       ELSE [status |-> "ok", df1 |-> df1, written |-> TRUE,
             rows |-> SliceAfter(rows, sdt_pd), df3 |-> SliceAfter(rows, sdt_pd)]

(* get_latest_klines from get_raw_bars' return on: the merge, to_feather and
   the slice.  pd.concat of two tables without columns has no "dt" column,
   and sort_values("dt") raises KeyError before anything is written. *)
SyncResult(df, s_dt, sdt_pd, period, all_klines, edt, clock, ncols) ==
    LET df1 == GetRawBars(all_klines, period, s_dt, edt, clock, ncols)
        df2 == Concat(df, df1)
        rows == MergeRows(df.rows, df1.rows)
    IN IF ~df2.cols
       THEN [status |-> "KeyError", df1 |-> df1, written |-> FALSE,
             rows |-> <<>>, df3 |-> <<>>]
       ELSE [status |-> "ok", df1 |-> df1, written |-> TRUE,
             rows |-> rows, df3 |-> SliceAfter(rows, sdt_pd)]

(* ------------------------------- state --------------------------------- *)
VARIABLES
    now,      \* the wall clock, pd.Timestamp.now()
    ticks,    \* how often the clock has advanced
    cache,    \* the cache files: file -> [exists, rows]
    pc,       \* per caller: "idle" | "fetch" (in the pagination loop) | "merge"
    call      \* per caller: the locals of its get_latest_klines call

vars == <<now, ticks, cache, pc, call>>

NoCall ==
    [sdt |-> NoSdt, sdt_pd |-> DefaultSdt, period |-> "4h", file |-> FileCache("4h", DefaultSdt),
     had_cache |-> FALSE, df |-> EmptyDF, s_dt |-> 0, edt |-> 0, ncols |-> 6,
     since |-> 0, until |-> 0, cur |-> 0, all_klines |-> <<>>,
     stop |-> "none", clock |-> 0, df1 |-> EmptyDF, df3 |-> <<>>, status |-> "none",
     tried |-> <<>>, ak_df |-> <<>>]

Init ==
    /\ now = Now0
    /\ ticks = 0
    /\ cache = [f \in Files |-> [exists |-> FALSE, rows |-> <<>>]]
    /\ pc = [p \in Procs |-> "idle"]
    /\ call = [p \in Procs |-> NoCall]

(* The wall clock advances. *)
Tick ==
    /\ ticks < MaxTicks
    /\ now' = now + TickStep
    /\ ticks' = ticks + 1
    /\ UNCHANGED <<cache, pc, call>>

(* get_latest_klines up to the first test of the pagination loop:
   the window, the cache read, the resume point, get_raw_bars' period check
   and the conversion of the window to milliseconds. *)
Begin(p, sdt, period, ncols) ==
    /\ pc[p] = "idle"
    /\ LET sdt_pd == IF sdt = NoSdt THEN DefaultSdt ELSE sdt
           edt == now + 2 * Day
           file == FileCache(period, sdt_pd)
           exists == cache[file].exists
           df == CacheRead(cache[file])
           nat == IsNaT(cache[file])
           s_dt == IF nat THEN 0 ELSE FetchStart(cache[file], sdt_pd)
           raised == IF period \notin Timeframes THEN "UnsupportedPeriod"
                     ELSE IF nat THEN "NaT" ELSE "none"
           c == [NoCall EXCEPT !.sdt = sdt, !.sdt_pd = sdt_pd, !.period = period,
                               !.file = file, !.had_cache = exists, !.df = df,
                               !.s_dt = s_dt, !.edt = edt, !.ncols = ncols,
                               !.since = s_dt, !.until = edt, !.cur = s_dt,
                               !.status = raised]
       IN /\ call' = [call EXCEPT ![p] = c]
          /\ pc' = [pc EXCEPT ![p] = IF raised = "none" THEN "fetch" ELSE "idle"]
    /\ UNCHANGED <<now, ticks, cache>>

(* One iteration of the loop that gets a non-empty page. *)
FetchPage(p, klines) ==
    /\ pc[p] = "fetch"
    /\ call[p].cur < call[p].until
    /\ Len(call[p].all_klines) + Len(klines) <= MaxRows
    /\ call' = [call EXCEPT ![p].all_klines = @ \o klines,
                            ![p].cur = NextCursor(klines)]
    /\ UNCHANGED <<now, ticks, cache, pc>>

(* One iteration that gets an empty page: break. *)
FetchEmpty(p) ==
    /\ pc[p] = "fetch"
    /\ call[p].cur < call[p].until
    /\ call' = [call EXCEPT ![p].stop = "empty"]
    /\ pc' = [pc EXCEPT ![p] = "merge"]
    /\ UNCHANGED <<now, ticks, cache>>

(* One iteration whose request raises: warning, break. *)
FetchFail(p) ==
    /\ pc[p] = "fetch"
    /\ call[p].cur < call[p].until
    /\ call' = [call EXCEPT ![p].stop = "error"]
    /\ pc' = [pc EXCEPT ![p] = "merge"]
    /\ UNCHANGED <<now, ticks, cache>>

(* The loop test fails: cur >= until. *)
LoopExit(p) ==
    /\ pc[p] = "fetch"
    /\ call[p].cur >= call[p].until
    /\ call' = [call EXCEPT ![p].stop = "until"]
    /\ pc' = [pc EXCEPT ![p] = "merge"]
    /\ UNCHANGED <<now, ticks, cache>>

(* The rest of the call: normalisation, get_raw_bars' filters, the merge,
   to_feather and the returned slice. *)
Finish(p) ==
    /\ pc[p] = "merge"
    /\ LET c == call[p]
           r == SyncResult(c.df, c.s_dt, c.sdt_pd, c.period, c.all_klines, c.edt,
                           now, c.ncols)
       IN /\ call' = [call EXCEPT ![p].df1 = r.df1, ![p].clock = now,
                                  ![p].df3 = r.df3, ![p].status = r.status]
          /\ cache' = IF r.written
                      THEN [cache EXCEPT ![c.file] = [exists |-> TRUE, rows |-> r.rows]]
                      ELSE cache
    /\ pc' = [pc EXCEPT ![p] = "idle"]
    /\ UNCHANGED <<now, ticks>>

Step(p) ==
    \/ \E sdt \in StartChoices, period \in Periods, ncols \in ColumnCounts :
           Begin(p, sdt, period, ncols)
    \/ \E klines \in Pages : FetchPage(p, klines)
    \/ FetchEmpty(p)
    \/ FetchFail(p)
    \/ LoopExit(p)
    \/ Finish(p)

(* One caller at a time: the calls on a file are serialised. *)
Next == Tick \/ Step(1)

Spec == Init /\ [][Next]_vars

(* ------------------------ the pagination loop alone -------------------- *)
(* An iteration that gets a non-empty page after the upstream has delivered
   the MaxRows rows of FetchPage: the next cursor is computed from the page
   as before.  The loop test and the requests read cur and until only, so
   the table all_klines is not extended any further here. *)
FetchPageOver(p, klines) ==
    /\ pc[p] = "fetch"
    /\ call[p].cur < call[p].until
    /\ Len(call[p].all_klines) + Len(klines) > MaxRows
    /\ call' = [call EXCEPT ![p].cur = NextCursor(klines)]
    /\ UNCHANGED <<now, ticks, cache, pc>>

(* __api_fetch_ohlcv's loop, entered from get_latest_klines, against an
   upstream that may go on returning pages for ever. *)
NextLoop ==
    \/ \E sdt \in StartChoices, period \in Periods, ncols \in ColumnCounts :
           Begin(1, sdt, period, ncols)
    \/ \E klines \in Pages : FetchPage(1, klines)
    \/ \E klines \in Pages : FetchPageOver(1, klines)
    \/ FetchEmpty(1)
    \/ FetchFail(1)
    \/ LoopExit(1)

(* The caller is never suspended: a loop that can take a step takes one. *)
SpecLoop == Init /\ [][NextLoop]_vars /\ WF_vars(NextLoop)

(* ------------- python-binance connector: get_raw_bars ------------------ *)
NoEdt == -1
EndChoices == {NoEdt, 2 * Day}
PbStarts == {DefaultSdt, 12 * Hour}
PbPeriods == {"4h", "1d"}

(* df["dt"] = to_datetime(close_time, unit="ms") + 8 h ; no interval shift *)
PbNormRows(all_rows, period) ==
    [i \in DOMAIN all_rows |->
        [dt |-> CloseTs(all_rows[i], period) + 8 * Hour, v |-> all_rows[i].v]]

(* What get_raw_bars returns once the loop has ended normally. *)
PbGetRawBars(all_rows, period, sdt, edt) ==
    IF all_rows = <<>> THEN EmptyDF
    ELSE Frame(WindowFilter(SortValues(DropDuplicatesLast(PbNormRows(all_rows, period))),
                            sdt, edt))

(* get_raw_bars(symbol, period, sdt, edt) up to the first loop test *)
PbBegin(p, sdt, edt, period) ==
    /\ pc[p] = "idle"
    /\ LET e == IF edt = NoEdt THEN now ELSE edt
       IN  call' = [call EXCEPT ![p] =
                [NoCall EXCEPT !.sdt = sdt, !.sdt_pd = sdt, !.s_dt = sdt,
                               !.period = period, !.edt = e, !.ncols = 12,
                               !.since = sdt, !.until = e, !.cur = sdt,
                               !.clock = now]]
    /\ pc' = [pc EXCEPT ![p] = "fetch"]
    /\ UNCHANGED <<now, ticks, cache>>

(* client.get_klines raises: nothing in get_raw_bars catches it, so the
   exception leaves the function and the rows of all_rows go with it. *)
PbFetchRaise(p) ==
    /\ pc[p] = "fetch"
    /\ call[p].cur < call[p].until
    /\ call' = [call EXCEPT ![p].stop = "error", ![p].status = "UpstreamError"]
    /\ pc' = [pc EXCEPT ![p] = "idle"]
    /\ UNCHANGED <<now, ticks, cache>>

(* after the loop: normalise, filter, return *)
PbFinish(p) ==
    /\ pc[p] = "merge"
    /\ call' = [call EXCEPT
                  ![p].df1 = PbGetRawBars(call[p].all_klines, call[p].period,
                                          call[p].sdt, call[p].edt),
                  ![p].status = "ok"]
    /\ pc' = [pc EXCEPT ![p] = "idle"]
    /\ UNCHANGED <<now, ticks, cache>>

(* The loop of lines 63-83 is the loop of __api_fetch_ohlcv without its
   try/except: FetchPage, FetchEmpty and LoopExit are its other steps. *)
NextPb ==
    \/ Tick
    \/ \E sdt \in PbStarts, edt \in EndChoices, period \in PbPeriods :
           PbBegin(1, sdt, edt, period)
    \/ \E klines \in Pages : FetchPage(1, klines)
    \/ FetchEmpty(1)
    \/ PbFetchRaise(1)
    \/ LoopExit(1)
    \/ PbFinish(1)

SpecPb == Init /\ [][NextPb]_vars

(* ------------------ akshare connector: get_raw_bars -------------------- *)
Candidates == <<"stock_zh_a_minute", "stock_zh_a_minute_em", "stock_zh_a_hist_min_em">>

AkPeriods == {"1m", "60m"}

(* A table a candidate returns: rows with a time column and a payload. *)
AkRows == [dt : TsGrid, v : Values]
AkTables == SeqsUpTo(AkRows, MaxRows) \ {<<>>}

(* What one candidate does when the loop comes to it: the attribute is
   absent, the call raises, it returns None, a table without rows, or a
   table with rows. *)
AkOutcomes ==
    [kind : {"absent", "raises", "none", "empty"}, table : {<<>>}]
        \cup [kind : {"rows"}, table : AkTables]

(* The loop is left by break instead of by exhausting the list. *)
AkLoopEndsNoBreak(o, i) == i = Len(Candidates)

(* The loop over candidates is left by the break after df = df_try, or
   when the list is exhausted. *)
AkLoopEnds(o, i) == o.kind = "rows" \/ i = Len(Candidates)

(* _normalize_df on a table that has a time column, then the window filter *)
AkResult(table, sdt, edt) ==
    Frame(WindowFilter(SortValues(DropDuplicatesLast(table)), sdt, edt))

(* get_raw_bars up to the loop: the import of akshare may fail. *)
AkBegin(p, sdt, edt, period, installed) ==
    /\ pc[p] = "idle"
    /\ call' = [call EXCEPT ![p] =
            [NoCall EXCEPT !.sdt = sdt, !.sdt_pd = sdt, !.s_dt = sdt, !.period = period,
                           !.edt = IF edt = NoEdt THEN now ELSE edt,
                           !.clock = now,
                           !.status = IF installed THEN "none" ELSE "ImportError"]]
    /\ pc' = [pc EXCEPT ![p] = IF installed THEN "candidates" ELSE "idle"]
    /\ UNCHANGED <<now, ticks, cache>>

(* One iteration of `for name, params in candidates`. *)
AkTry(p, o) ==
    /\ pc[p] = "candidates"
    /\ LET i == Len(call[p].tried) + 1
       IN  /\ i <= Len(Candidates)
           /\ call' = [call EXCEPT
                         ![p].tried = Append(@, [name |-> Candidates[i], kind |-> o.kind,
                                                 table |-> o.table]),
                         ![p].ak_df = IF o.kind = "rows" THEN o.table ELSE @]
           /\ pc' = [pc EXCEPT ![p] = IF AkLoopEnds(o, i) THEN "normalize"
                                      ELSE "candidates"]
    /\ UNCHANGED <<now, ticks, cache>>

(* After the loop: RuntimeError when df is None, else normalise and filter. *)
AkFinish(p) ==
    /\ pc[p] = "normalize"
    /\ call' = [call EXCEPT
                  ![p].status = IF call[p].ak_df = <<>> THEN "RuntimeError" ELSE "ok",
                  ![p].df1 = IF call[p].ak_df = <<>> THEN EmptyDF
                             ELSE AkResult(call[p].ak_df, call[p].sdt, call[p].edt)]
    /\ pc' = [pc EXCEPT ![p] = "idle"]
    /\ UNCHANGED <<now, ticks, cache>>

NextAk ==
    \/ Tick
    \/ \E sdt \in PbStarts, edt \in EndChoices, period \in AkPeriods, installed \in BOOLEAN :
           AkBegin(1, sdt, edt, period, installed)
    \/ \E o \in AkOutcomes : AkTry(1, o)
    \/ AkFinish(1)

SpecAk == Init /\ [][NextAk]_vars

(* --------------------- the normaliser on its own ----------------------- *)
(* The intervals the upstream serves: the keys of timeframes and one the
   shift table does not know. *)
Intervals == Timeframes \cup {"3m"}

(* Six columns [open_ts, o, h, l, c, v], or seven with close_ts. *)
WideColumnCounts == {6, 7}

(* __api_fetch_ohlcv's lines 238-278 applied to a table of raw rows. *)
Normalize(p, interval, ncols, klines) ==
    /\ pc[p] = "idle"
    /\ call[p] = NoCall
    /\ call' = [call EXCEPT ![p] =
            [NoCall EXCEPT !.period = interval, !.ncols = ncols, !.all_klines = klines,
                           !.df1 = ApiFetchOhlcv(klines, interval, ncols),
                           !.status = "ok"]]
    /\ UNCHANGED <<now, ticks, cache, pc>>

NextNorm ==
    \E interval \in Intervals, ncols \in WideColumnCounts,
       klines \in SeqsUpTo(RawRows, MaxRows) :
        Normalize(1, interval, ncols, klines)

SpecNorm == Init /\ [][NextNorm]_vars

(* ------------------- two callers on the same cache key ----------------- *)
(* get_latest_klines takes no lock: the steps of two calls for one symbol,
   period and start interleave freely.  Which rows a file holds is what
   matters here, so the upstream serves one payload per timestamp. *)
ConcPages == {klines \in Pages : \A i \in DOMAIN klines : klines[i].v = 1}

StepConc(p) ==
    \/ Begin(p, NoSdt, "4h", 6)
    \/ \E klines \in ConcPages : FetchPage(p, klines)
    \/ FetchEmpty(p)
    \/ FetchFail(p)
    \/ LoopExit(p)
    \/ Finish(p)

NextConc == \E p \in Procs : StepConc(p)

SpecConc == Init /\ [][NextConc]_vars

(* ------------------------------ properties ----------------------------- *)
(* The caller's last get_latest_klines call returned (it did not raise). *)
Completed(p) == pc[p] = "idle" /\ call[p].status = "ok"

(* The rows of the file the caller's call works on. *)
Persisted(p) == cache[call[p].file].rows

(* The rows the upstream delivered to the call, normalised, before
   get_raw_bars filters them. *)
Fetched(p) == NormRows(call[p].all_klines, call[p].period, call[p].ncols)

Rows(s) == {s[i] : i \in DOMAIN s}

(* C1: in every persisted series all dt values are pairwise distinct,
   whatever the upstream pages held. *)
C1_UniqueDt ==
    \A f \in Files :
        \A i, j \in DOMAIN cache[f].rows :
            i # j => cache[f].rows[i].dt # cache[f].rows[j].dt

(* A call on an existing cache got the same timestamp twice from the
   upstream, a timestamp the cache held already, and persisted two rows. *)
C1_Witness ==
    /\ Completed(1)
    /\ call[1].had_cache
    /\ Len(call[1].all_klines) = 2
    /\ call[1].all_klines[1].open_ts = call[1].all_klines[2].open_ts
    /\ Dts(call[1].df1.rows) # {}
    /\ Dts(call[1].df1.rows) \subseteq Dts(call[1].df.rows)
    /\ Len(Persisted(1)) >= 2

(* C2: every persisted series is strictly increasing in dt by row index,
   in whatever order the upstream delivered the rows. *)
C2_StrictlyIncreasing ==
    \A f \in Files :
        \A i \in 1..(Len(cache[f].rows) - 1) :
            cache[f].rows[i].dt < cache[f].rows[i + 1].dt

(* The upstream delivered a later bar before an earlier one, and both
   were persisted. *)
C2_Witness ==
    /\ Completed(1)
    /\ Len(call[1].all_klines) = 2
    /\ call[1].all_klines[1].open_ts > call[1].all_klines[2].open_ts
    /\ Len(call[1].df1.rows) = 2
    /\ Rows(call[1].df1.rows) \subseteq Rows(Persisted(1))

(* C3: merging the rows a call fetched into the series the call persisted
   gives that series again: merge(merge(S, R), R) = merge(S, R). *)
C3_MergeIdempotent ==
    \A p \in Procs :
        Completed(p) => MergeRows(Persisted(p), call[p].df1.rows) = Persisted(p)

(* A merge of two fetched rows into an existing series: one replaces a
   cached row of another value, the other is new. *)
C3_Witness ==
    /\ Completed(1)
    /\ call[1].had_cache
    /\ Len(call[1].df1.rows) = 2
    /\ \E r \in Rows(call[1].df1.rows) : r.dt \notin Dts(call[1].df.rows)
    /\ \E r \in Rows(call[1].df1.rows) :
           \E o \in Rows(call[1].df.rows) : o.dt = r.dt /\ o.v # r.v

(* C4: no fetched row whose dt is later than the wall clock of the call is
   in the returned slice or in the persisted series. *)
C4_NoIncompleteBar ==
    \A p \in Procs :
        Completed(p) =>
            \A r \in Rows(Fetched(p)) :
                r.dt > call[p].clock =>
                    r \notin Rows(call[p].df3) /\ r \notin Rows(Persisted(p))

(* C5: every row sync returns has dt strictly greater than the requested
   start. *)
C5_BoundaryFilter ==
    \A p \in Procs :
        Completed(p) => \A r \in Rows(call[p].df3) : r.dt > call[p].sdt_pd

(* A call with an explicit start persisted a row at exactly that start and
   returned other rows. *)
C5_Witness ==
    /\ Completed(1)
    /\ call[1].sdt # NoSdt
    /\ call[1].sdt \in Dts(Persisted(1))
    /\ call[1].sdt \in Dts(call[1].df1.rows)
    /\ call[1].df3 # <<>>

(* The outcome of a second call with the arguments of the caller's completed
   call, made at the clock of that call, when the upstream delivers the same
   rows again: the cache read and resume point of Begin on the file as it
   is now, then the rest of the call as in Finish. *)
SecondCall(p) ==
    LET c == call[p]
        f == cache[c.file]
    IN IF IsNaT(f)
       THEN [status |-> "NaT", df1 |-> EmptyDF, written |-> FALSE,
             rows |-> <<>>, df3 |-> <<>>]
       ELSE SyncResult(CacheRead(f), FetchStart(f, c.sdt_pd), c.sdt_pd, c.period,
                       c.all_klines, c.clock + 2 * Day, c.clock, c.ncols)

(* C6: a second call with the same arguments, the same upstream rows and the
   same clock returns the slice the first call returned and leaves the
   persisted series as it is. *)
C6_SyncIdempotent ==
    \A p \in Procs :
        (Completed(p) /\ call[p].edt = call[p].clock + 2 * Day) =>
            /\ SecondCall(p).status = "ok"
            /\ SecondCall(p).df3 = call[p].df3
            /\ SecondCall(p).rows = Persisted(p)

(* C7: a persisted series is extended and never shrunk: every step leaves
   an existing file in place with all the dt values it held. *)
C7_NeverShrunk ==
    [][\A f \in Files :
           cache[f].exists =>
               /\ cache'[f].exists
               /\ Dts(cache[f].rows) \subseteq Dts(cache'[f].rows)]_vars

(* A call on an existing, non-empty series persisted it with a new dt. *)
C7_Witness ==
    /\ Completed(1)
    /\ call[1].had_cache
    /\ call[1].df.rows # <<>>
    /\ Dts(call[1].df.rows) # Dts(Persisted(1))
    /\ Dts(call[1].df.rows) \subseteq Dts(Persisted(1))

(* C8: after a call on an existing cache, a cached row whose dt a fetched row
   (a row get_raw_bars returned) has carries the fetched row's values, and a
   cached row earlier than max cached dt minus one day is persisted as it
   was. *)
C8_ResumeMerge ==
    \A p \in Procs :
        (Completed(p) /\ call[p].had_cache) =>
            /\ \A o \in Rows(call[p].df.rows) :
                   \A r \in Rows(call[p].df1.rows) :
                       o.dt = r.dt =>
                           \A q \in Rows(Persisted(p)) : q.dt = r.dt => q = r
            /\ \A o \in Rows(call[p].df.rows) :
                   o.dt < MaxDt(call[p].df.rows) - Day => o \in Rows(Persisted(p))

(* A call on a cache that held a row earlier than the resume point fetched
   a bar the cache held with another value; the upstream also delivered the
   early bar again, with another value. *)
C8_Witness ==
    /\ Completed(1)
    /\ call[1].had_cache
    /\ \E o \in Rows(call[1].df.rows) :
           /\ o.dt < MaxDt(call[1].df.rows) - Day
           /\ \E r \in Rows(Fetched(1)) : r.dt = o.dt /\ r.v # o.v
    /\ \E o \in Rows(call[1].df.rows) :
           \E r \in Rows(call[1].df1.rows) : o.dt = r.dt /\ o.v # r.v

(* The start of the fetch window the claim names. *)
ClaimedStart(p) ==
    IF call[p].had_cache THEN MaxDt(call[p].df.rows) - Day
    ELSE IF call[p].sdt = NoSdt THEN DefaultSdt ELSE call[p].sdt

(* C9: the paginator's window starts at max cached dt minus one day when a
   cache file exists and at the requested start otherwise, and no page is
   requested with a cursor earlier than that start. *)
C9_ResumePoint ==
    \A p \in Procs :
        pc[p] = "fetch" =>
            /\ call[p].since = ClaimedStart(p)
            /\ call[p].cur < call[p].until => call[p].cur >= ClaimedStart(p)

(* C10: an iteration of the pagination loop that receives a non-empty page
   leaves the cursor strictly greater than it was. *)
C10_CursorAdvances ==
    [][\A p \in Procs :
           (/\ pc[p] = "fetch"
            /\ pc'[p] = "fetch"
            /\ Len(call'[p].all_klines) > Len(call[p].all_klines)) =>
               call'[p].cur > call[p].cur]_vars

(* C11: the pagination loop eventually terminates, and it ends exactly when
   the cursor has reached until, a page was empty or a fetch failed. *)
C11_Terminates ==
    /\ \A p \in Procs : (pc[p] = "fetch") ~> (pc[p] = "merge")
    /\ [](\A p \in Procs :
             pc[p] = "merge" =>
                 \/ call[p].stop = "until" /\ call[p].cur >= call[p].until
                 \/ call[p].stop \in {"empty", "error"} /\ call[p].cur < call[p].until)

(* C12: when a page fetch fails after k >= 0 pages succeeded, the paginator
   does not raise, requests no further page and returns exactly the rows
   accumulated from the k earlier pages. *)
C12_PartialSuccess ==
    \A p \in Procs :
        call[p].stop = "error" =>
            /\ pc[p] # "fetch"
            /\ call[p].status # "UpstreamError"
            /\ pc[p] = "idle" =>
                   call[p].df1 = PbGetRawBars(call[p].all_klines, call[p].period,
                                              call[p].sdt, call[p].edt)

(* The call has returned or raised after a loop that collected no row. *)
NoUpstreamRows(p) ==
    pc[p] = "idle" /\ call[p].stop # "none" /\ call[p].all_klines = <<>>

(* C13: when the upstream returns no rows, the sync completes without
   raising, leaves the persisted series of the key as it was, and returns
   the cached rows with dt > requested start (none when there is no cache). *)
C13_EmptyNotError ==
    \A p \in Procs :
        NoUpstreamRows(p) =>
            /\ call[p].status = "ok"
            /\ cache[call[p].file] =
                   [exists |-> call[p].had_cache, rows |-> call[p].df.rows]
            /\ call[p].df3 = SliceAfter(call[p].df.rows, call[p].sdt_pd)

(* The akshare call has ended after its loop over the candidates. *)
AkDone(p) == pc[p] = "idle" /\ call[p].status \in {"ok", "RuntimeError"}

FirstWithRows(t) == CHOOSE i \in DOMAIN t : t[i].kind = "rows" /\ \A j \in 1..(i - 1) : t[j].kind # "rows"

(* C14: the candidates are tried in their fixed order; one that is absent,
   raises or returns no rows is skipped and the next is tried; the result
   comes from the first candidate that returns rows; the call fails with
   RuntimeError exactly when no candidate returned rows. *)
C14_CandidateFallback ==
    \A p \in Procs :
        LET t == call[p].tried
            none == \A i \in DOMAIN t : t[i].kind # "rows"
        IN  /\ \A i \in DOMAIN t : t[i].name = Candidates[i]
            /\ \A i \in DOMAIN t : i < Len(t) => t[i].kind # "rows"
            /\ pc[p] = "normalize" \/ AkDone(p) =>
                   /\ none => Len(t) = Len(Candidates)
                   /\ AkDone(p) => (call[p].status = "RuntimeError" <=> none)
                   /\ AkDone(p) /\ ~none =>
                          call[p].df1 = AkResult(t[FirstWithRows(t)].table,
                                                 call[p].sdt, call[p].edt)

(* A call whose first candidate raised and whose second returned an empty
   table got its rows from the third. *)
C14_Witness ==
    /\ AkDone(1) /\ call[1].status = "ok"
    /\ Len(call[1].tried) = 3
    /\ call[1].tried[1].kind = "raises"
    /\ call[1].tried[2].kind = "empty"
    /\ call[1].df1.rows # <<>>

(* The period names the claim calls the fixed vocabulary. *)
FixedVocabulary == {"1m", "5m", "15m", "30m", "1h", "2h", "4h", "6h", "8h", "12h", "1d"}

(* C15: a call with a period outside the fixed vocabulary fails with the
   unsupported-period error before any page is requested, and the persisted
   caches are left as they were. *)
C15_UnsupportedPeriod ==
    [][\A p \in Procs :
          pc[p] = "idle" /\ call'[p] # call[p] /\ call'[p].period \notin FixedVocabulary =>
              /\ call'[p].status = "UnsupportedPeriod"
              /\ pc'[p] = "idle"
              /\ call'[p].stop = "none" /\ call'[p].all_klines = <<>>
              /\ cache' = cache]_vars

(* A call with period "3m" has failed while another key holds a cache. *)
C15_Witness ==
    /\ pc[1] = "idle"
    /\ call[1].period = "3m" /\ call[1].status = "UnsupportedPeriod"
    /\ \E f \in Files : cache[f].exists /\ cache[f].rows # <<>>

(* One interval's duration for the intervals the claim lists, nothing for
   the others. *)
OneInterval(interval) ==
    CASE interval = "1m" -> Minute
      [] interval = "5m" -> 5 * Minute
      [] interval = "15m" -> 15 * Minute
      [] interval = "30m" -> 30 * Minute
      [] interval = "1h" -> Hour
      [] interval = "2h" -> 2 * Hour
      [] interval = "4h" -> 4 * Hour
      [] OTHER -> 0

(* C16: the normalised dt of a raw row with open time t0 is t0 plus one
   interval (none for 1d and unmapped intervals) plus 8 h, whether or not
   the raw rows carry a close timestamp column. *)
C16_CloseTimeShift ==
    \A p \in Procs :
        call[p].status = "ok" =>
            Dts(call[p].df1.rows) =
                {call[p].all_klines[i].open_ts + OneInterval(call[p].period) + 8 * Hour :
                     i \in DOMAIN call[p].all_klines}

(* C17: a sync's write removes rows from the file only when the file was
   written by the other call between this call's read and its write (the
   two read-to-write sections interleave); a call that writes over the
   file it read, as calls run one after the other do, loses no row. *)
C17_LostUpdate ==
    [][\A f \in Files :
          cache[f].exists /\ ~(Dts(cache[f].rows) \subseteq Dts(cache'[f].rows)) =>
              \E q \in Procs :
                  /\ pc[q] = "merge" /\ pc'[q] = "idle"
                  /\ call[q].file = f
                  /\ CacheRead(cache[f]) # call[q].df]_vars

(* Both calls have completed on one key and the file lacks a row that
   caller 1 fetched and wrote. *)
C17_Witness ==
    /\ Completed(1) /\ Completed(2)
    /\ call[1].file = call[2].file
    /\ ~(Dts(call[1].df1.rows) \subseteq Dts(Persisted(1)))

(* The index of the last row of s that carries the timestamp d. *)
LastIndexOf(s, d) == CHOOSE i \in DOMAIN s : s[i].dt = d /\ \A j \in DOMAIN s : j > i => s[j].dt # d

(* C18: the normaliser's output holds exactly one row for every normalised
   timestamp of the accumulated raw table, with the values of the last
   occurrence in fetch order, and is sorted ascending by dt. *)
C18_NormalizerDedup ==
    \A p \in Procs :
        call[p].status = "ok" =>
            LET raw == NormRows(call[p].all_klines, call[p].period, call[p].ncols)
                out == call[p].df1.rows
            IN  /\ Dts(out) = Dts(raw)
                /\ \A i, j \in DOMAIN out : i < j => out[i].dt < out[j].dt
                /\ \A i \in DOMAIN out : out[i].v = raw[LastIndexOf(raw, out[i].dt)].v

(* Two raw rows with one timestamp and different values went in, and one
   row carrying the values of the second came out. *)
C18_Witness ==
    /\ call[1].status = "ok"
    /\ Len(call[1].all_klines) = 2
    /\ call[1].all_klines[1].open_ts = call[1].all_klines[2].open_ts
    /\ call[1].all_klines[1].v # call[1].all_klines[2].v
    /\ Len(call[1].df1.rows) = 1
    /\ call[1].df1.rows[1].v = call[1].all_klines[2].v

(* C19: on every completed sync the full merged series is what the file
   holds, and the returned slice is exactly the persisted rows with
   dt > requested start, in their order and with their values. *)
C19_SliceOfPersisted ==
    \A p \in Procs :
        Completed(p) =>
            /\ cache[call[p].file].exists
            /\ Persisted(p) = MergeRows(call[p].df.rows, call[p].df1.rows)
            /\ call[p].df3 = SelectSeq(Persisted(p), LAMBDA r : r.dt > call[p].sdt_pd)

(* A completed sync on a cached key persisted rows on both sides of the
   requested start and returned some, not all. *)
C19_Witness ==
    /\ Completed(1) /\ call[1].had_cache
    /\ \E r \in Rows(Persisted(1)) : r.dt <= call[1].sdt_pd
    /\ call[1].df3 # <<>>
    /\ call[1].df1.rows # <<>>

(* C20: an existing cache file holds at least one row, so the resume point
   of the next sync on its key is defined; a first sync whose fetched rows
   are all filtered out leaves no empty file behind. *)
C20_NonEmptyCache ==
    \A f \in Files : cache[f].exists => cache[f].rows # <<>> /\ ~IsNaT(cache[f])

====
